---- MODULE Spec2Model ----
(***************************************************************************)
(* A model of pyfite's coordinate reference systems (src/pyfite/crs.py):   *)
(* the CRS string grammar (fromStr / __str__), the converter dispatcher    *)
(* (CoordinateConverter) and the process-wide active ellipsoid.            *)
(*                                                                         *)
(* Strings are sequences of one-character strings, so that the regular     *)
(* expressions, float() and repr() are computed character by character.    *)
(***************************************************************************)
EXTENDS Integers, Sequences, FiniteSets

(***************************************************************************)
(* Characters.  Printable lists ASCII 32..122 in code order, so that       *)
(* Ord(c) is the code point Python compares strings by (the double quote,  *)
(* backslash and backtick, which no input uses, are written as names).     *)
(***************************************************************************)
Printable ==
  << " ", "!", "<dquote>", "#", "$", "%", "&", "'", "(", ")", "*", "+", ",", "-", ".", "/",
     "0", "1", "2", "3", "4", "5", "6", "7", "8", "9", ":", ";", "<", "=", ">", "?",
     "@", "A", "B", "C", "D", "E", "F", "G", "H", "I", "J", "K", "L", "M", "N", "O",
     "P", "Q", "R", "S", "T", "U", "V", "W", "X", "Y", "Z", "[", "<backslash>", "]", "^", "_",
     "<backtick>", "a", "b", "c", "d", "e", "f", "g", "h", "i", "j", "k", "l", "m", "n", "o",
     "p", "q", "r", "s", "t", "u", "v", "w", "x", "y", "z" >>

Ord(c) == 31 + (CHOOSE i \in 1..Len(Printable) : Printable[i] = c)

Chr(n) == Printable[n - 31]

IsDigit(c) == c \in {"0", "1", "2", "3", "4", "5", "6", "7", "8", "9"}

IsUpperLetter(c) == c \in {Printable[i] : i \in 34..59}

IsLowerLetter(c) == c \in {Printable[i] : i \in 66..91}

\* str.upper() on one character
Upper(c) == IF IsLowerLetter(c) THEN Chr(Ord(c) - 32) ELSE c

\* the case folding re.IGNORECASE applies to an ASCII character
Lower(c) == IF IsUpperLetter(c) THEN Chr(Ord(c) + 32) ELSE c

\* \w of the re module, on ASCII
IsWordChar(c) == IsDigit(c) \/ IsUpperLetter(c) \/ IsLowerLetter(c) \/ c = "_"

DigitVal(c) == Ord(c) - 48

\* the character at position i, or "" past the end of the string
At(s, i) == IF i \in 1..Len(s) THEN s[i] ELSE ""

Slice(s, i, j) == SubSeq(s, i, j - 1)

\* re.match of a literal word at position i, ignoring case: the position after
\* it, or 0
RECURSIVE MatchWord(_, _, _)
MatchWord(s, i, w) ==
  IF w = << >> THEN i
  ELSE IF At(s, i) # "" /\ Lower(At(s, i)) = Lower(Head(w)) THEN MatchWord(s, i + 1, Tail(w))
  ELSE 0

\* \d* at position i: the first position at or after i that holds no digit
RECURSIVE SkipDigits(_, _)
SkipDigits(s, i) == IF IsDigit(At(s, i)) THEN SkipDigits(s, i + 1) ELSE i

\* DECIMAL_REGEX (util.py): an optional sign, then either "." and one or more
\* digits, or one or more digits, an optional "." and any digits; then an
\* optional exponent ("e" or "E", an optional sign, one or more digits).
\* MatchDecimal matches it at position i and gives the position after the match,
\* or 0 when there is none. Every quantifier is greedy and the two alternatives
\* start with different characters, so the first match the engine finds is the
\* longest one; in the CRS patterns a number is followed by a space or by the
\* optional offset group, and a shorter match of the number ends before a
\* character of the number itself, so backtracking into a number never finds
\* another overall match.
MatchExponent(s, p) ==
  IF At(s, p) \in {"e", "E"}
  THEN LET q == IF At(s, p + 1) \in {"+", "-"} THEN p + 2 ELSE p + 1
           r == SkipDigits(s, q)
       IN  IF r > q THEN r ELSE p
  ELSE p

MatchDecimal(s, i) ==
  LET p1 == IF At(s, i) \in {"+", "-"} THEN i + 1 ELSE i
  IN  IF At(s, p1) = "."
      THEN LET p2 == SkipDigits(s, p1 + 1)
           IN  IF p2 > p1 + 1 THEN MatchExponent(s, p2) ELSE 0
      ELSE IF IsDigit(At(s, p1))
      THEN LET p2 == SkipDigits(s, p1)
               p3 == IF At(s, p2) = "." THEN SkipDigits(s, p2 + 1) ELSE p2
           IN  MatchExponent(s, p3)
      ELSE 0

(***************************************************************************)
(* Floats.  A Python float is modelled by its shortest decimal form:       *)
(* [k, neg, m, e] stands for (-1)^neg * m * 10^e with m not divisible by   *)
(* 10 (m = 0, e = 0 for a zero), or for an infinity when k = "inf".  The   *)
(* model is exact for literals of at most 9 significant digits whose value *)
(* is a normal double, overflows or underflows: distinct such decimals are *)
(* distinct doubles, and repr() gives back the same digits.                *)
(***************************************************************************)
Fin(neg, m, e) == [k |-> "fin", neg |-> neg, m |-> m, e |-> e]

Inf(neg) == [k |-> "inf", neg |-> neg, m |-> 0, e |-> 0]

FZero == Fin(FALSE, 0, 0)

\* == on floats: the two zeros are equal
FloatEq(a, b) == IF a.k = "fin" /\ b.k = "fin" /\ a.m = 0 /\ b.m = 0 THEN TRUE ELSE a = b

RECURSIVE DigitsToNat(_)
DigitsToNat(ds) ==
  IF ds = << >> THEN 0
  ELSE 10 * DigitsToNat(SubSeq(ds, 1, Len(ds) - 1)) + DigitVal(ds[Len(ds)])

RECURSIVE NatToDigits(_)
NatToDigits(n) ==
  IF n < 10 THEN << Chr(48 + n) >> ELSE NatToDigits(n \div 10) \o << Chr(48 + (n % 10)) >>

RECURSIVE Pow10(_)
Pow10(k) == IF k = 0 THEN 1 ELSE 10 * Pow10(k - 1)

RECURSIVE Normalise(_, _, _)
Normalise(neg, m, e) ==
  IF m = 0 THEN Fin(neg, 0, 0)
  ELSE IF m % 10 = 0 THEN Normalise(neg, m \div 10, e + 1)
  ELSE Fin(neg, m, e)

\* The double nearest to f: an infinity above the largest double
\* (1.7976931348623157e308; the rounding boundary lies just above it), a zero
\* below the smallest (4.9e-324). n is the number of digits of f.m.
Clamp(f, n) ==
  IF n + f.e - 1 > 308 \/ (n + f.e - 1 = 308 /\ f.m * Pow10(9 - n) > 179769313) THEN Inf(f.neg)
  ELSE IF n + f.e - 1 < -324 THEN Fin(f.neg, 0, 0)
  ELSE f

RoundNormal(f) == IF f.m = 0 THEN f ELSE Clamp(f, Len(NatToDigits(f.m)))

RoundToDouble(neg, m, e) == RoundNormal(Normalise(neg, m, e))

\* the exponent a token states from position p on ("e", a sign, digits), or 0
Exponent(tok, p) ==
  IF At(tok, p) \in {"e", "E"}
  THEN IF At(tok, p + 1) = "-" THEN 0 - DigitsToNat(Slice(tok, p + 2, Len(tok) + 1))
       ELSE IF At(tok, p + 1) = "+" THEN DigitsToNat(Slice(tok, p + 2, Len(tok) + 1))
       ELSE DigitsToNat(Slice(tok, p + 1, Len(tok) + 1))
  ELSE 0

\* tok's integer digits are at p1..p2-1 and, after a ".", its fraction digits
\* at p2+1..p3-1 (p3 = p2 when there is no ".")
FloatOfParts(tok, p1, p2, p3) ==
  IF p3 > p2
  THEN RoundToDouble(At(tok, 1) = "-", DigitsToNat(Slice(tok, p1, p2) \o Slice(tok, p2 + 1, p3)),
                     Exponent(tok, p3) - (p3 - p2 - 1))
  ELSE RoundToDouble(At(tok, 1) = "-", DigitsToNat(Slice(tok, p1, p2)), Exponent(tok, p3))

FloatAfterInt(tok, p1, p2) ==
  FloatOfParts(tok, p1, p2, IF At(tok, p2) = "." THEN SkipDigits(tok, p2 + 1) ELSE p2)

FloatAfterSign(tok, p1) == FloatAfterInt(tok, p1, SkipDigits(tok, p1))

\* float(tok) for a token DECIMAL_REGEX matched
PyFloat(tok) == FloatAfterSign(tok, IF At(tok, 1) \in {"+", "-"} THEN 2 ELSE 1)

Zeros(k) == [i \in 1..k |-> "0"]

\* repr(x) of a float, which str(), format() and f-strings use: the shortest
\* digits, in fixed notation when the decimal point lies in -3..16 and in
\* exponent notation (at least two exponent digits) otherwise
Repr(f) ==
  LET sgn == IF f.neg THEN << "-" >> ELSE << >>
  IN  IF f.k = "inf" THEN sgn \o << "i", "n", "f" >>
      ELSE IF f.m = 0 THEN sgn \o << "0", ".", "0" >>
      ELSE
        LET ds    == NatToDigits(f.m)
            n     == Len(ds)
            decpt == n + f.e
            x     == decpt - 1
            xAbs  == IF x < 0 THEN 0 - x ELSE x
            xDig  == IF xAbs < 10 THEN << "0" >> \o NatToDigits(xAbs) ELSE NatToDigits(xAbs)
        IN  IF decpt > 16 \/ decpt < -3
            THEN sgn \o << ds[1] >>
                     \o (IF n > 1 THEN << "." >> \o SubSeq(ds, 2, n) ELSE << >>)
                     \o << "e", IF x < 0 THEN "-" ELSE "+" >> \o xDig
            ELSE IF decpt <= 0
            THEN sgn \o << "0", "." >> \o Zeros(0 - decpt) \o ds
            ELSE IF decpt < n
            THEN sgn \o SubSeq(ds, 1, decpt) \o << "." >> \o SubSeq(ds, decpt + 1, n)
            ELSE sgn \o ds \o Zeros(decpt - n) \o << ".", "0" >>

\* str(n) of a non-negative int
IntStr(n) == NatToDigits(n)

(***************************************************************************)
(* CRS objects.  One record shape for the five classes; the fields a class *)
(* does not have hold a fixed filler.  hasOffset is whether the object has *)
(* the attribute _offset (ProjCrs.__init__ does not set it).               *)
(***************************************************************************)
ZeroOffset == << FZero, FZero, FZero >>

Crs(type, lon, lat, alt, zone, south, hasOffset, offset, proj) ==
  [type |-> type, lon |-> lon, lat |-> lat, alt |-> alt, zone |-> zone, south |-> south,
   hasOffset |-> hasOffset, offset |-> offset, proj |-> proj]

LocalTangentPlane(lon, lat, alt, offset) ==
  Crs("LocalTangentPlane", lon, lat, alt, 0, FALSE, TRUE, offset, << >>)

Geocentric(offset) == Crs("Geocentric", FZero, FZero, FZero, 0, FALSE, TRUE, offset, << >>)

Geodetic(offset) == Crs("Geodetic", FZero, FZero, FZero, 0, FALSE, TRUE, offset, << >>)

Utm(zone, south, offset) == Crs("Utm", FZero, FZero, FZero, zone, south, TRUE, offset, << >>)

ProjCrs(proj_str) == Crs("ProjCrs", FZero, FZero, FZero, 0, FALSE, FALSE, ZeroOffset, proj_str)

NoCrs == Crs("NoneType", FZero, FZero, FZero, 0, FALSE, FALSE, ZeroOffset, << >>)

\* How a call ends: it returns a CRS object, returns None, or raises.
Return(crs) == [kind |-> "return", crs |-> crs]

ReturnNone == [kind |-> "None", crs |-> NoCrs]

Raise(exc) == [kind |-> exc, crs |-> NoCrs]

NotCalled == [kind |-> "not called", crs |-> NoCrs]

(***************************************************************************)
(* The patterns.  A match is [end, g]: the position after the match (0: no *)
(* match) and the groups; << >> is a group that took no part (None).       *)
(***************************************************************************)
NoMatch == [end |-> 0, g |-> << >>]

\* the first alternative of (?:w1|w2|...) that matches at position i
RECURSIVE MatchAlt(_, _, _)
MatchAlt(s, i, words) ==
  IF words = << >> THEN 0
  ELSE IF MatchWord(s, i, Head(words)) # 0 THEN MatchWord(s, i, Head(words))
  ELSE MatchAlt(s, i, Tail(words))

\* " " and DECIMAL_REGEX at position i (0: the match before it failed)
MatchSpDecimal(s, i) == IF i # 0 /\ At(s, i) = " " THEN MatchDecimal(s, i + 1) ELSE 0

TripleGroups(s, i, a1, a2, a3) ==
  IF a3 # 0
  THEN [end |-> a3, g |-> << Slice(s, i + 1, a1), Slice(s, a1 + 1, a2), Slice(s, a2 + 1, a3) >>]
  ELSE NoMatch

TripleThird(s, i, a1, a2) == TripleGroups(s, i, a1, a2, MatchSpDecimal(s, a2))

TripleSecond(s, i, a1) == TripleThird(s, i, a1, MatchSpDecimal(s, a1))

\* " (D) (D) (D)" at position i, D being DECIMAL_REGEX
MatchTriple(s, i) == TripleSecond(s, i, MatchSpDecimal(s, i))

OrEmpty(m, i) == IF m.end # 0 THEN m ELSE [end |-> i, g |-> << << >>, << >>, << >> >>]

\* _OPTIONAL_OFFSET at position i: the triple when it is there, and otherwise
\* the empty match with its three groups None. The pattern ends here and
\* is not anchored at the end of the string: what follows is not looked at.
OPTIONAL_OFFSET(s, i) == OrEmpty(MatchTriple(s, i), i)

\* the match so far, m, followed by the optional offset
WithOffset(m, o) == [end |-> o.end, g |-> m.g \o o.g]

ParseOffset(g1, g2, g3) ==
  IF g1 # << >> THEN << PyFloat(g1), PyFloat(g2), PyFloat(g3) >> ELSE ZeroOffset

KwLtp == << <<"l", "t", "p">>, <<"e", "n", "u">> >>

KwGeocentric == << <<"g", "c", "c">>, <<"g", "e", "o", "c", "e", "n", "t", "r", "i", "c">>,
                   <<"e", "c", "e", "f">> >>

KwGeodetic == << <<"g", "d", "c">>, <<"g", "e", "o", "d", "e", "t", "i", "c">>,
                 <<"l", "l", "a">> >>

KwUtm == << <<"u", "t", "m">> >>

LtpAfterFields(s, f) == IF f.end # 0 THEN WithOffset(f, OPTIONAL_OFFSET(s, f.end)) ELSE NoMatch

LtpAfterKeyword(s, k) == IF k # 0 THEN LtpAfterFields(s, MatchTriple(s, k)) ELSE NoMatch

LocalTangentPlane_srepRegex(s) == LtpAfterKeyword(s, MatchAlt(s, 1, KwLtp))

LocalTangentPlane_ofMatch(sm) ==
  IF sm.end # 0
  THEN Return(LocalTangentPlane(PyFloat(sm.g[1]), PyFloat(sm.g[2]), PyFloat(sm.g[3]),
                                ParseOffset(sm.g[4], sm.g[5], sm.g[6])))
  ELSE Raise("CrsDefError")

LocalTangentPlane_fromStr(srep) == LocalTangentPlane_ofMatch(LocalTangentPlane_srepRegex(srep))

OffsetAfterKeyword(s, k) == IF k # 0 THEN OPTIONAL_OFFSET(s, k) ELSE NoMatch

Geocentric_srepRegex(s) == OffsetAfterKeyword(s, MatchAlt(s, 1, KwGeocentric))

Geocentric_ofMatch(sm) ==
  IF sm.end # 0
  THEN Return(Geocentric(ParseOffset(sm.g[1], sm.g[2], sm.g[3])))
  ELSE Raise("CrsDefError")

Geocentric_fromStr(srep) == Geocentric_ofMatch(Geocentric_srepRegex(srep))

Geodetic_srepRegex(s) == OffsetAfterKeyword(s, MatchAlt(s, 1, KwGeodetic))

Geodetic_ofMatch(sm) ==
  IF sm.end # 0
  THEN Return(Geodetic(ParseOffset(sm.g[1], sm.g[2], sm.g[3])))
  ELSE Raise("CrsDefError")

Geodetic_fromStr(srep) == Geodetic_ofMatch(Geodetic_srepRegex(srep))

\* (\d{1,2})(\w) at position d: how many digits the zone takes (0: no match).
\* \d{1,2} is greedy: two digits when a \w follows them, and otherwise the
\* engine backtracks to one digit, the next character (a digit too, maybe)
\* being the \w.
ZoneLen(s, d) ==
  IF ~IsDigit(At(s, d)) THEN 0
  ELSE IF IsDigit(At(s, d + 1)) /\ IsWordChar(At(s, d + 2)) THEN 2
  ELSE IF IsWordChar(At(s, d + 1)) THEN 1
  ELSE 0

UtmAfterZone(s, d, n) ==
  IF n # 0
  THEN WithOffset([end |-> d + n + 1, g |-> << Slice(s, d, d + n), << s[d + n] >> >>],
                  OPTIONAL_OFFSET(s, d + n + 1))
  ELSE NoMatch

UtmAfterKeyword(s, k) ==
  IF k # 0 /\ At(s, k) = " " THEN UtmAfterZone(s, k + 1, ZoneLen(s, k + 1)) ELSE NoMatch

\* (?:utm) (\d{1,2})(\w) and the optional offset
Utm_srepRegex(s) == UtmAfterKeyword(s, MatchAlt(s, 1, KwUtm))

Utm_ofMatch(sm) ==
  IF sm.end # 0
  THEN Return(Utm(DigitsToNat(sm.g[1]), Ord(Upper(sm.g[2][1])) <= Ord("M"),
                  ParseOffset(sm.g[3], sm.g[4], sm.g[5])))
  ELSE Raise("CrsDefError")

Utm_fromStr(srep) == Utm_ofMatch(Utm_srepRegex(srep))

\* Utm.fromPoint(lon, lat) for whole lon and lat: floor((lon + 180) / 360 * 60) + 1,
\* where the quotient and the product are doubles; for every whole lon of
\* -180..180 the double product has the floor of the exact one.
HalfTurn == 180

Utm_fromPoint(lon, lat) ==
  Return(Utm(((lon + HalfTurn) * 60) \div 360 + 1, lat < 0, ZeroOffset))

\* CoordinateReferenceSystem.fromStr: the keyword test, then the class's own
\* fromStr; the if/elif chain has no else, so the call returns None when no
\* keyword matches.
CoordinateReferenceSystem_fromStr(srep) ==
  IF srep = << >> THEN Raise("RuntimeError")
  ELSE IF MatchAlt(srep, 1, << <<"l", "t", "p">>, <<"e", "n", "u">> >>) # 0
  THEN LocalTangentPlane_fromStr(srep)
  ELSE IF MatchAlt(srep, 1, << <<"g", "e", "o", "d", "e", "t", "i", "c">>, <<"g", "d", "c">>,
                               <<"l", "l", "a">> >>) # 0
  THEN Geodetic_fromStr(srep)
  ELSE IF MatchAlt(srep, 1, << <<"u", "t", "m">> >>) # 0
  THEN Utm_fromStr(srep)
  ELSE IF MatchAlt(srep, 1, << <<"e", "c", "e", "f">>, <<"g", "c", "c">> >>) # 0
  THEN Geocentric_fromStr(srep)
  ELSE ReturnNone

\* _getOffsetStr: the tuple comparison is element by element, with ==
getOffsetStr(offset) ==
  IF \E i \in 1..3 : ~FloatEq(offset[i], FZero)
  THEN << " " >> \o Repr(offset[1]) \o << " " >> \o Repr(offset[2]) \o << " " >> \o Repr(offset[3])
  ELSE << >>

LocalTangentPlane_str(self) ==
  << "E", "N", "U", " " >> \o Repr(self.lon) \o << " " >> \o Repr(self.lat) \o << " " >>
    \o Repr(self.alt) \o getOffsetStr(self.offset)

Geocentric_str(self) == << "G", "C", "C" >> \o getOffsetStr(self.offset)

Geodetic_str(self) == << "G", "D", "C" >> \o getOffsetStr(self.offset)

Utm_str(self) ==
  << "U", "T", "M", " " >> \o IntStr(self.zone) \o << IF self.south THEN "S" ELSE "N" >>
    \o getOffsetStr(self.offset)

ProjCrs_str(self) == self.proj

\* str(crs): the __str__ of the object's class
Str(crs) ==
  CASE crs.type = "LocalTangentPlane" -> LocalTangentPlane_str(crs)
    [] crs.type = "Geocentric" -> Geocentric_str(crs)
    [] crs.type = "Geodetic" -> Geodetic_str(crs)
    [] crs.type = "Utm" -> Utm_str(crs)
    [] crs.type = "ProjCrs" -> ProjCrs_str(crs)

(***************************************************************************)
(* Projection descriptors (getProjStr).                                    *)
(***************************************************************************)
ECEF_PROJ == << "+", "p", "r", "o", "j", "=", "g", "e", "o", "c", "e", "n", "t", " ", "+", "e", "l", "l", "p", "s", "=", "W", "G", "S", "8", "4" >>

GEODETIC_PROJ ==
  << "+", "p", "r", "o", "j", "=", "l", "o", "n", "g", "l", "a", "t", " ", "+", "e", "l", "l", "p", "s", "=", "W", "G", "S", "8", "4", " ", "+", "d", "a", "t", "u", "m", "=", "W", "G", "S", "8", "4", " ", "+", "n", "o", "_", "d", "e", "f", "s" >>

Utm_getProjStr(self) ==
  << "+", "p", "r", "o", "j", "=", "u", "t", "m", " ", "+", "z", "o", "n", "e", "=" >> \o IntStr(self.zone)
    \o << " ", "+", "e", "l", "l", "p", "s", "=", "W", "G", "S", "8", "4" >>
    \o (IF self.south THEN << " ", "+", "s", "o", "u", "t", "h" >> ELSE << >>)

\* crs.getProjStr() of a class that has it
getProjStr(crs) ==
  CASE crs.type = "Geocentric" -> ECEF_PROJ
    [] crs.type = "Geodetic" -> GEODETIC_PROJ
    [] crs.type = "Utm" -> Utm_getProjStr(crs)
    [] crs.type = "ProjCrs" -> crs.proj

(***************************************************************************)
(* The engines (pymap3d, pyproj) are outside the repository.  A transform  *)
(* is [name, lat0, lon0, h0, ell, src, dst]; a coordinate is a number, or  *)
(* the ax-th output of a transform applied to three coordinates, moved by  *)
(* d.  Transforms are exact mutual inverses (enu2ecef and ecef2enu, and    *)
(* enu2geodetic and geodetic2enu, at one origin on one ellipsoid; pyproj's *)
(* a -> b and b -> a), and nothing else is known of them.  pymap3d takes   *)
(* and returns ENU as (e, n, u), geodetic as (lat, lon, h), ECEF as        *)
(* (x, y, z); pyproj with always_xy takes and returns (x, y, z), which for *)
(* a geodetic CRS is (lon, lat, h).                                        *)
(***************************************************************************)
Ellipsoid(model) == [type |-> "Ellipsoid", model |-> model]

NoEllipsoid == [type |-> "", model |-> ""]

P3d(name, lat0, lon0, h0, ell) ==
  [name |-> name, lat0 |-> lat0, lon0 |-> lon0, h0 |-> h0, ell |-> ell, src |-> << >>, dst |-> << >>]

Transformer(src, dst) ==
  [name |-> "transform", lat0 |-> FZero, lon0 |-> FZero, h0 |-> FZero, ell |-> NoEllipsoid, src |-> src,
   dst |-> dst]

NoOp == [name |-> "", lat0 |-> FZero, lon0 |-> FZero, h0 |-> FZero, ell |-> NoEllipsoid, src |-> << >>,
         dst |-> << >>]

Inverse(op) ==
  CASE op.name = "enu2ecef" -> [op EXCEPT !.name = "ecef2enu"]
    [] op.name = "ecef2enu" -> [op EXCEPT !.name = "enu2ecef"]
    [] op.name = "enu2geodetic" -> [op EXCEPT !.name = "geodetic2enu"]
    [] op.name = "geodetic2enu" -> [op EXCEPT !.name = "enu2geodetic"]
    [] op.name = "transform" -> [op EXCEPT !.src = op.dst, !.dst = op.src]

Num(v) == [t |-> "num", v |-> v, op |-> NoOp, arg |-> << >>, ax |-> 0, d |-> 0]

Img(op, arg, ax) == [t |-> "img", v |-> 0, op |-> op, arg |-> arg, ax |-> ax, d |-> 0]

\* x + k for a coordinate x and a number k
Shift(x, k) == IF x.t = "num" THEN [x EXCEPT !.v = x.v + k] ELSE [x EXCEPT !.d = x.d + k]

IsImageOf(op, args) ==
  \A k \in 1..3 : /\ args[k].t = "img"
                  /\ args[k].op = op
                  /\ args[k].ax = k
                  /\ args[k].d = 0
                  /\ args[k].arg = args[1].arg

\* the three outputs of transform op on the three inputs args
Engine(op, args) ==
  IF IsImageOf(Inverse(op), args) THEN args[1].arg
  ELSE << Img(op, args, 1), Img(op, args, 2), Img(op, args, 3) >>

\* the value of a float that is a whole number
FloatInt(f) == IF f.neg THEN 0 - f.m * Pow10(f.e) ELSE f.m * Pow10(f.e)

(***************************************************************************)
(* Point batches: [shape, rows].  rows holds the N rows of an (N, 3)       *)
(* array; an array of another shape is never read, and holds none here.    *)
(***************************************************************************)
Batch(shape, rows) == [shape |-> shape, rows |-> rows]

EmptyBatch == Batch(<< >>, << >>)

\* points + offset and points - offset, the offset broadcast over the rows
AddOffset(rows, offset) ==
  [i \in 1..Len(rows) |-> [k \in 1..3 |-> Shift(rows[i][k], FloatInt(offset[k]))]]

SubOffset(rows, offset) ==
  [i \in 1..Len(rows) |-> [k \in 1..3 |-> Shift(rows[i][k], 0 - FloatInt(offset[k]))]]

(***************************************************************************)
(* CoordinateConverter.__getConverter: the closure it returns, or None.    *)
(* A closure is [case, fromCrs, toCrs, src, dst]: which def c it is and    *)
(* what it closes over.                                                    *)
(***************************************************************************)
Closure(case, fromCrs, toCrs, src, dst) ==
  [case |-> case, fromCrs |-> fromCrs, toCrs |-> toCrs, src |-> src, dst |-> dst]

NoneClosure == Closure("None", NoCrs, NoCrs, << >>, << >>)

getPyprojFunc(fromCrs, toCrs) == Closure("pyproj", NoCrs, NoCrs, fromCrs, toCrs)

\* __getConverter giving LocalTangentPlane -> Utm the closure of LocalTangentPlane -> Geodetic
getConverter_utmAsGeodetic(fromCrs, toCrs) ==
  IF fromCrs.type # "LocalTangentPlane" /\ toCrs.type # "LocalTangentPlane"
  THEN getPyprojFunc(getProjStr(fromCrs), getProjStr(toCrs))
  ELSE IF fromCrs.type = "LocalTangentPlane"
  THEN IF toCrs.type = "LocalTangentPlane" THEN Closure("ltp_ltp", fromCrs, toCrs, << >>, << >>)
       ELSE IF toCrs.type = "Geocentric" THEN Closure("ltp_geocentric", fromCrs, toCrs, << >>, << >>)
       ELSE IF toCrs.type = "Geodetic" THEN Closure("ltp_geodetic", fromCrs, toCrs, << >>, << >>)
       ELSE IF toCrs.type = "Utm" THEN Closure("ltp_geodetic", fromCrs, toCrs, << >>, << >>)
       ELSE NoneClosure
  ELSE IF fromCrs.type = "Geocentric" THEN Closure("geocentric_ltp", fromCrs, toCrs, << >>, << >>)
  ELSE IF fromCrs.type = "Geodetic" THEN Closure("geodetic_ltp", fromCrs, toCrs, << >>, << >>)
  ELSE IF fromCrs.type = "Utm" THEN Closure("utm_ltp", fromCrs, toCrs, << >>, << >>)
  ELSE NoneClosure

getConverter(fromCrs, toCrs) ==
  IF fromCrs.type # "LocalTangentPlane" /\ toCrs.type # "LocalTangentPlane"
  THEN getPyprojFunc(getProjStr(fromCrs), getProjStr(toCrs))
  ELSE IF fromCrs.type = "LocalTangentPlane"
  THEN IF toCrs.type = "LocalTangentPlane" THEN Closure("ltp_ltp", fromCrs, toCrs, << >>, << >>)
       ELSE IF toCrs.type = "Geocentric" THEN Closure("ltp_geocentric", fromCrs, toCrs, << >>, << >>)
       ELSE IF toCrs.type = "Geodetic" THEN Closure("ltp_geodetic", fromCrs, toCrs, << >>, << >>)
       ELSE IF toCrs.type = "Utm" THEN Closure("ltp_utm", fromCrs, toCrs, << >>, << >>)
       ELSE NoneClosure
  ELSE IF fromCrs.type = "Geocentric" THEN Closure("geocentric_ltp", fromCrs, toCrs, << >>, << >>)
  ELSE IF fromCrs.type = "Geodetic" THEN Closure("geodetic_ltp", fromCrs, toCrs, << >>, << >>)
  ELSE IF fromCrs.type = "Utm" THEN Closure("utm_ltp", fromCrs, toCrs, << >>, << >>)
  ELSE NoneClosure

\* The transforms a closure calls, in order, each [op, in, out]: the transform,
\* which columns of the points it is given as its three arguments, and which
\* of its three outputs become columns 0, 1, 2 of the points after it
\* (column_stack). ell is _activeEllipsoid when the closure runs.
Link(op, in, out) == [op |-> op, in |-> in, out |-> out]

Chain(c, ell) ==
  CASE c.case = "pyproj" ->
         << Link(Transformer(c.src, c.dst), << 1, 2, 3 >>, << 1, 2, 3 >>) >>
    [] c.case = "ltp_ltp" ->
         << Link(P3d("enu2ecef", c.fromCrs.lat, c.fromCrs.lon, c.fromCrs.alt, ell),
                 << 1, 2, 3 >>, << 1, 2, 3 >>),
            Link(P3d("ecef2enu", c.toCrs.lat, c.toCrs.lon, c.toCrs.alt, ell),
                 << 1, 2, 3 >>, << 1, 2, 3 >>) >>
    [] c.case = "ltp_geocentric" ->
         << Link(P3d("enu2ecef", c.fromCrs.lat, c.fromCrs.lon, c.fromCrs.alt, ell),
                 << 1, 2, 3 >>, << 1, 2, 3 >>) >>
    [] c.case = "ltp_geodetic" ->
         << Link(P3d("enu2geodetic", c.fromCrs.lat, c.fromCrs.lon, c.fromCrs.alt, ell),
                 << 1, 2, 3 >>, << 2, 1, 3 >>) >>
    [] c.case = "ltp_utm" ->
         << Link(P3d("enu2geodetic", c.fromCrs.lat, c.fromCrs.lon, c.fromCrs.alt, ell),
                 << 1, 2, 3 >>, << 2, 1, 3 >>),
            Link(Transformer(GEODETIC_PROJ, getProjStr(c.toCrs)), << 1, 2, 3 >>, << 1, 2, 3 >>) >>
    [] c.case = "geocentric_ltp" ->
         << Link(P3d("ecef2enu", c.toCrs.lat, c.toCrs.lon, c.toCrs.alt, ell),
                 << 1, 2, 3 >>, << 1, 2, 3 >>) >>
    [] c.case = "geodetic_ltp" ->
         << Link(P3d("geodetic2enu", c.toCrs.lat, c.toCrs.lon, c.toCrs.alt, ell),
                 << 2, 1, 3 >>, << 2, 1, 3 >>) >>
    [] c.case = "utm_ltp" ->
         << Link(Transformer(getProjStr(c.fromCrs), GEODETIC_PROJ), << 1, 2, 3 >>, << 1, 2, 3 >>),
            Link(P3d("geodetic2enu", c.toCrs.lat, c.toCrs.lon, c.toCrs.alt, ell),
                 << 2, 1, 3 >>, << 2, 1, 3 >>) >>

Permute(t, perm) == << t[perm[1]], t[perm[2]], t[perm[3]] >>

\* one transform of a chain on one row
RunLink(l, row) == Permute(Engine(l.op, Permute(row, l.in)), l.out)

RECURSIVE RunChainRow(_, _)
RunChainRow(chain, row) ==
  IF chain = << >> THEN row ELSE RunChainRow(Tail(chain), RunLink(Head(chain), row))

\* c(points) for a closure c
RunClosure(c, rows, ell) == [i \in 1..Len(rows) |-> RunChainRow(Chain(c, ell), rows[i])]

(***************************************************************************)
(* CoordinateConverter.  An object is [status, fromOffset, toOffset,       *)
(* convert]; status is "built" or the exception __init__ raised.  A        *)
(* constructor argument is a CRS object or a str (type "str", the string   *)
(* in proj).                                                               *)
(***************************************************************************)
StrArg(str) == Crs("str", FZero, FZero, FZero, 0, FALSE, FALSE, ZeroOffset, str)

Converter(status, fromOffset, toOffset, convert) ==
  [status |-> status, fromOffset |-> fromOffset, toOffset |-> toOffset, convert |-> convert]

NoConverter == Converter("none", ZeroOffset, ZeroOffset, NoneClosure)

\* what reading arg.offset raises, or "" when it gives the offset
OffsetError(arg) ==
  IF arg.type = "str" THEN "AttributeError"
  ELSE IF ~arg.hasOffset THEN "NotImplementedError"
  ELSE ""

CoordinateConverter_init(fromCrs, toCrs) ==
  IF OffsetError(fromCrs) # "" THEN Converter(OffsetError(fromCrs), ZeroOffset, ZeroOffset, NoneClosure)
  ELSE IF OffsetError(toCrs) # "" THEN Converter(OffsetError(toCrs), ZeroOffset, ZeroOffset, NoneClosure)
  ELSE Converter("built", fromCrs.offset, toCrs.offset, getConverter(fromCrs, toCrs))

\* What a call leaves behind: how it ended, the array it returned, the shape
\* its error message reports, the steps it took in order, and the caller's
\* array after it (points + offset builds a new array).
Step(what, op) == [what |-> what, op |-> op]

CallResult(kind, batch, shape, steps, points) ==
  [kind |-> kind, batch |-> batch, shape |-> shape, steps |-> steps, points |-> points]

NoCall == CallResult("not called", EmptyBatch, << >>, << >>, EmptyBatch)

EngineSteps(chain) == [i \in 1..Len(chain) |-> Step("engine", chain[i].op)]

\* __call__ with a check of the column count only
CoordinateConverter_call_columnsOnly(self, points, ell) ==
  IF Len(points.shape) < 2 \/ points.shape[2] # 3
  THEN CallResult("RuntimeError", EmptyBatch, points.shape, << Step("shape", NoOp) >>, points)
  ELSE CallResult("return",
                  Batch(points.shape,
                        SubOffset(RunClosure(self.convert, AddOffset(points.rows, self.fromOffset), ell),
                                  self.toOffset)),
                  << >>,
                  << Step("shape", NoOp), Step("add", NoOp) >>
                    \o EngineSteps(Chain(self.convert, ell)) \o << Step("sub", NoOp) >>,
                  points)

\* __call__ with the two offsets the other way round
CoordinateConverter_call_offsetsSwapped(self, points, ell) ==
  IF Len(points.shape) # 2 \/ points.shape[2] # 3
  THEN CallResult("RuntimeError", EmptyBatch, points.shape, << Step("shape", NoOp) >>, points)
  ELSE IF self.convert.case = "None"
  THEN CallResult("TypeError", EmptyBatch, << >>, << Step("shape", NoOp), Step("add", NoOp) >>, points)
  ELSE CallResult("return",
                  Batch(points.shape,
                        SubOffset(RunClosure(self.convert, AddOffset(points.rows, self.toOffset), ell),
                                  self.fromOffset)),
                  << >>,
                  << Step("shape", NoOp), Step("add", NoOp) >>
                    \o EngineSteps(Chain(self.convert, ell)) \o << Step("sub", NoOp) >>,
                  points)

CoordinateConverter_call(self, points, ell) ==
  IF Len(points.shape) # 2 \/ points.shape[2] # 3
  THEN CallResult("RuntimeError", EmptyBatch, points.shape, << Step("shape", NoOp) >>, points)
  ELSE IF self.convert.case = "None"
  THEN CallResult("TypeError", EmptyBatch, << >>, << Step("shape", NoOp), Step("add", NoOp) >>, points)
  ELSE CallResult("return",
                  Batch(points.shape,
                        SubOffset(RunClosure(self.convert, AddOffset(points.rows, self.fromOffset), ell),
                                  self.toOffset)),
                  << >>,
                  << Step("shape", NoOp), Step("add", NoOp) >>
                    \o EngineSteps(Chain(self.convert, ell)) \o << Step("sub", NoOp) >>,
                  points)


(***************************************************************************)
(* _activeEllipsoid and SetActiveEllipsoid: how the call ends, and the     *)
(* module's _activeEllipsoid after it.                                     *)
(***************************************************************************)
DefaultEllipsoid == Ellipsoid("wgs84")

EllipsoidResult(kind, msg, active) == [kind |-> kind, msg |-> msg, active |-> active]

\* SetActiveEllipsoid with the assignment of line 23 in place of the raise
SetActiveEllipsoid_assigning(ellipsoid, active) ==
  IF ellipsoid.type = "Ellipsoid"
  THEN EllipsoidResult("return", "", ellipsoid)
  ELSE EllipsoidResult("RuntimeError", "Can only act on an ellipsoid compatible with pymap3d", active)

SetActiveEllipsoid_result(ellipsoid, active) ==
  IF ellipsoid.type = "Ellipsoid"
  THEN EllipsoidResult("RuntimeError", "No existing support for ellipsoids other than WGS84", active)
  ELSE EllipsoidResult("RuntimeError", "Can only act on an ellipsoid compatible with pymap3d", active)

(***************************************************************************)
(* The inputs of the parsing runs.  A description string is put together   *)
(* from a keyword, the fields after it and a tail of offset numbers; the   *)
(* record keeps the parts, the string itself is Render(inp).               *)
(***************************************************************************)
MaxTail == 3

Keywords ==
  { << >>, <<"f", "o", "o">>,
    <<"l", "t", "p">>, <<"E", "N", "U">>,
    <<"g", "c", "c">>, <<"g", "e", "o", "c", "e", "n", "t", "r", "i", "c">>,
    <<"G", "E", "O", "C", "E", "N", "T", "R", "I", "C">>, <<"E", "c", "e", "f">>,
    <<"g", "d", "c">>, <<"G", "e", "o", "d", "e", "t", "i", "c">>, <<"L", "L", "A">>,
    <<"u", "t", "m">>, <<"U", "T", "M">> }

\* number tokens
T0 == << "0" >>
T1 == << "1" >>
T10 == << "1", "0" >>
T20 == << "2", "0" >>
T30 == << "3", "0" >>
T100 == << "1", "0", "0" >>
TNegZero == << "-", "0" >>
THalf == << ".", "5" >>
TLon == << "-", "7", "7", ".", "5" >>
TLat == << "3", "8", ".", "9" >>
TBig == << "1", "e", "1", "6" >>
TSmall == << "1", "E", "-", "5" >>
THuge == << "1", "e", "9", "9", "9" >>
TTiny == << "1", "e", "-", "9", "9", "9" >>

LtpFields == { << TLon, TLat, T100 >>, << T0, T0, T0 >>, << TBig, TSmall, THalf >>,
               << THuge, T0, T0 >> }

ZoneDigits ==
  { << "3", "1" >>, << "7" >>, << "1", "2" >>, << "0" >>, << "6", "0" >>, << "6", "1" >>,
    << "9", "9" >> }

BandChars == { "N", "n", "S", "C", "M", "m", "3", "_", "-" }

\* tails are the prefixes, of a length up to MaxTail, of these
TailPool == { << T10, T20, T30, T1 >>, << T0, T0, T0, T0 >>, << T0, T1, TNegZero, T1 >>,
              << THuge, T0, T0, T0 >>, << TTiny, T0, T0, T0 >>, << THalf, TSmall, TBig, T0 >> }

Tails == { SubSeq(t, 1, n) : t \in TailPool, n \in 0..MaxTail }

Inputs ==
  [kw : Keywords, shape : {"none"}, f : {<< >>}, tail : Tails]
  \cup [kw : Keywords, shape : {"ltp"}, f : LtpFields, tail : Tails]
  \cup [kw : Keywords, shape : {"utm"}, f : {<< z, << b >> >> : z \in ZoneDigits, b \in BandChars},
        tail : Tails]

RECURSIVE SpaceJoined(_)
SpaceJoined(toks) ==
  IF toks = << >> THEN << >> ELSE << " " >> \o Head(toks) \o SpaceJoined(Tail(toks))

Render(inp) ==
  inp.kw
    \o (CASE inp.shape = "none" -> << >>
          [] inp.shape = "ltp" -> SpaceJoined(inp.f)
          [] inp.shape = "utm" -> << " " >> \o inp.f[1] \o inp.f[2])
    \o SpaceJoined(inp.tail)

Classes == {"LocalTangentPlane", "Geocentric", "Geodetic", "Utm"}

\* cls.fromStr(srep), the class's own parser
Class_fromStr(cls, srep) ==
  CASE cls = "LocalTangentPlane" -> LocalTangentPlane_fromStr(srep)
    [] cls = "Geocentric" -> Geocentric_fromStr(srep)
    [] cls = "Geodetic" -> Geodetic_fromStr(srep)
    [] cls = "Utm" -> Utm_fromStr(srep)

(***************************************************************************)
(* The parsing runs: a description string is parsed by the factory, then   *)
(* either by a class's own fromStr, or printed with str() and the printed  *)
(* string parsed by the factory again.                                     *)
(***************************************************************************)
VARIABLES
  inp,      \* the parts of the description string
  srep,     \* the description string
  stage,    \* "start", "parsed", "direct", "printed", "reparsed"; "idle" in a conversion run
  crs1,     \* how CoordinateReferenceSystem.fromStr(srep) ended
  direct,   \* [cls, res]: how cls.fromStr(srep) ended
  text,     \* str(crs1.crs)
  crs2,     \* how CoordinateReferenceSystem.fromStr(text) ended
  point,    \* the point a Utm is derived from, if the run has one
  utm,      \* how Utm.fromPoint(point.lon, point.lat) ended
  fromArg,  \* the conversion runs: the arguments of CoordinateConverter(fromArg, toArg),
  toArg,    \* as they were when it was built
  fromObj,  \* the two CRS objects as they are now
  toObj,
  conv,     \* the object CoordinateConverter(fromArg, toArg), or how __init__ failed
  pts,      \* the batch conv is called on
  out,      \* how conv(pts) ended
  back,     \* the object CoordinateConverter(toObj, fromObj)
  out2,     \* how back(out.batch) ended
  cstage,   \* "new", "built", "called", "builtBack", "calledBack"; "idle" in a parsing run
  activeEllipsoid,  \* the module's _activeEllipsoid
  ellArg,   \* the argument of the last SetActiveEllipsoid call
  ellRes    \* how the last SetActiveEllipsoid call ended

parseVars == << inp, srep, stage, crs1, direct, text, crs2, point, utm >>

convVars ==
  << fromArg, toArg, fromObj, toObj, conv, pts, out, back, out2, cstage, activeEllipsoid, ellArg,
     ellRes >>

vars == << parseVars, convVars >>

NoDirect == [cls |-> "", res |-> NotCalled]

Point(lon, lat) == [given |-> TRUE, lon |-> lon, lat |-> lat]

NoPoint == [given |-> FALSE, lon |-> 0, lat |-> 0]

\* whole longitudes of [-180, 180], latitudes of both signs
Points == { Point(lon, lat) : lon \in (0 - HalfTurn)..HalfTurn, lat \in {0 - 10, 0, 10} }

BlankInput == [kw |-> << >>, shape |-> "none", f |-> << >>, tail |-> << >>]

\* a run has a description string, or a point and the empty string
ParseInit ==
  /\ \/ inp \in Inputs /\ point = NoPoint
     \/ inp = BlankInput /\ point \in Points
  /\ utm = NotCalled
  /\ srep = Render(inp)
  /\ stage = "start"
  /\ crs1 = NotCalled
  /\ direct = NoDirect
  /\ text = << >>
  /\ crs2 = NotCalled

\* CoordinateReferenceSystem.fromStr(srep)
FromStr ==
  /\ stage = "start"
  /\ crs1' = CoordinateReferenceSystem_fromStr(srep)
  /\ stage' = "parsed"
  /\ UNCHANGED << inp, srep, direct, text, crs2, point, utm >>
  /\ UNCHANGED convVars

\* cls.fromStr(srep)
ClassFromStr(cls) ==
  /\ stage = "parsed"
  /\ direct' = [cls |-> cls, res |-> Class_fromStr(cls, srep)]
  /\ stage' = "direct"
  /\ UNCHANGED << inp, srep, crs1, text, crs2, point, utm >>
  /\ UNCHANGED convVars

\* str(crs) of the object the factory returned
PrintStr ==
  /\ stage = "parsed"
  /\ crs1.kind = "return"
  /\ text' = Str(crs1.crs)
  /\ stage' = "printed"
  /\ UNCHANGED << inp, srep, crs1, direct, crs2, point, utm >>
  /\ UNCHANGED convVars

\* Utm.fromPoint(lon, lat)
FromPoint ==
  /\ point.given
  /\ utm = NotCalled
  /\ utm' = Utm_fromPoint(point.lon, point.lat)
  /\ UNCHANGED << inp, srep, stage, crs1, direct, text, crs2, point >>
  /\ UNCHANGED convVars

\* CoordinateReferenceSystem.fromStr(str(crs))
FromStrAgain ==
  /\ stage = "printed"
  /\ crs2' = CoordinateReferenceSystem_fromStr(text)
  /\ stage' = "reparsed"
  /\ UNCHANGED << inp, srep, crs1, direct, text, point, utm >>
  /\ UNCHANGED convVars

(***************************************************************************)
(* The conversion runs: a converter is built from two arguments and called *)
(* on a batch, then the converter of the opposite direction is built and   *)
(* called on what the first returned; SetActiveEllipsoid is called at any  *)
(* point.                                                                  *)
(***************************************************************************)
MaxPoints == 2

\* crs after crs.offset = offset
offset_setter(crs, offset) == [crs EXCEPT !.hasOffset = TRUE, !.offset = offset]

\* ProjCrs(proj_str) after crs.offset = offset
ProjCrsWithOffset(proj_str, offset) == offset_setter(ProjCrs(proj_str), offset)

SomeOffset == << PyFloat(T10), PyFloat(T20), PyFloat(T30) >>

OtherOffset == << PyFloat(T1), PyFloat(TNegZero), PyFloat(T100) >>

ConvArgs ==
  { LocalTangentPlane(PyFloat(TLon), PyFloat(TLat), PyFloat(T100), ZeroOffset),
    LocalTangentPlane(PyFloat(T10), PyFloat(T20), PyFloat(T0), SomeOffset),
    Geocentric(ZeroOffset), Geocentric(OtherOffset), Geodetic(SomeOffset),
    Utm(31, FALSE, ZeroOffset), Utm(7, TRUE, OtherOffset),
    ProjCrs(<< "E", "P", "S", "G", ":", "3", "8", "5", "7" >>),
    ProjCrsWithOffset(<< "E", "P", "S", "G", ":", "3", "8", "5", "7" >>, SomeOffset),
    StrArg(<< "g", "c", "c" >>) }

PointPool == { << Num(1), Num(2), Num(3) >>, << Num(4), Num(4), Num(6) >> }

Counts == 0..MaxPoints

\* arrays of shape (N, 3)
PointBatches ==
  { Batch(<< Len(rows), 3 >>, rows) : rows \in UNION { [1..n -> PointPool] : n \in Counts } }

\* the other shapes: 0-d, (N,), (N, 4), (N, 2), (N, 3, 1), (3, N, 3)
OtherShapes ==
  { << >> } \cup { << n >> : n \in Counts } \cup { << n, 4 >> : n \in Counts }
    \cup { << n, 2 >> : n \in Counts } \cup { << n, 3, 1 >> : n \in Counts }
    \cup { << 3, n, 3 >> : n \in Counts }

Batches == PointBatches \cup { Batch(shape, << >>) : shape \in OtherShapes }

\* the offsets assigned to an object after a converter is built from it
NewOffsets == { ZeroOffset, OtherOffset }

EllipsoidArgs ==
  { Ellipsoid("wgs84"), Ellipsoid("grs80"), [type |-> "NoneType", model |-> ""],
    [type |-> "str", model |-> "wgs84"] }

NoEllipsoidCall == EllipsoidResult("not called", "", NoEllipsoid)

ConvInit ==
  /\ fromArg = NoCrs
  /\ toArg = NoCrs
  /\ fromObj = NoCrs
  /\ toObj = NoCrs
  /\ conv = NoConverter
  /\ pts = EmptyBatch
  /\ out = NoCall
  /\ back = NoConverter
  /\ out2 = NoCall
  /\ cstage = "new"
  /\ activeEllipsoid = DefaultEllipsoid
  /\ ellArg = NoEllipsoid
  /\ ellRes = NoEllipsoidCall

\* CoordinateConverter(fromCrs, toCrs)
Construct(fromCrs, toCrs) ==
  /\ cstage = "new"
  /\ fromArg' = fromCrs
  /\ toArg' = toCrs
  /\ fromObj' = fromCrs
  /\ toObj' = toCrs
  /\ conv' = CoordinateConverter_init(fromCrs, toCrs)
  /\ cstage' = "built"
  /\ UNCHANGED << pts, out, back, out2, activeEllipsoid, ellArg, ellRes >>
  /\ UNCHANGED parseVars

\* conv(points)
Call(points) ==
  /\ cstage = "built"
  /\ conv.status = "built"
  /\ pts' = points
  /\ out' = CoordinateConverter_call(conv, points, activeEllipsoid)
  /\ cstage' = "called"
  /\ UNCHANGED << fromArg, toArg, fromObj, toObj, conv, back, out2, activeEllipsoid, ellArg, ellRes >>
  /\ UNCHANGED parseVars

\* CoordinateConverter(toCrs, fromCrs) on the same two objects
ConstructBack ==
  /\ cstage = "called"
  /\ out.kind = "return"
  /\ back' = CoordinateConverter_init(toObj, fromObj)
  /\ cstage' = "builtBack"
  /\ UNCHANGED << fromArg, toArg, fromObj, toObj, conv, pts, out, out2, activeEllipsoid, ellArg, ellRes >>
  /\ UNCHANGED parseVars

\* back(conv(points))
CallBack ==
  /\ cstage = "builtBack"
  /\ back.status = "built"
  /\ out2' = CoordinateConverter_call(back, out.batch, activeEllipsoid)
  /\ cstage' = "calledBack"
  /\ UNCHANGED << fromArg, toArg, fromObj, toObj, conv, pts, out, back, activeEllipsoid, ellArg, ellRes >>
  /\ UNCHANGED parseVars

\* crs.offset = offset on the source object
SetFromOffset(offset) ==
  /\ cstage \in {"built", "called"}
  /\ fromObj.type # "str"
  /\ fromObj' = offset_setter(fromObj, offset)
  /\ UNCHANGED << fromArg, toArg, toObj, conv, pts, out, back, out2, cstage, activeEllipsoid,
                  ellArg, ellRes >>
  /\ UNCHANGED parseVars

\* crs.offset = offset on the target object
SetToOffset(offset) ==
  /\ cstage \in {"built", "called"}
  /\ toObj.type # "str"
  /\ toObj' = offset_setter(toObj, offset)
  /\ UNCHANGED << fromArg, toArg, fromObj, conv, pts, out, back, out2, cstage, activeEllipsoid,
                  ellArg, ellRes >>
  /\ UNCHANGED parseVars

\* SetActiveEllipsoid(ellipsoid)
SetActiveEllipsoid(ellipsoid) ==
  /\ cstage # "idle"
  /\ ellArg' = ellipsoid
  /\ ellRes' = SetActiveEllipsoid_result(ellipsoid, activeEllipsoid)
  /\ activeEllipsoid' = SetActiveEllipsoid_result(ellipsoid, activeEllipsoid).active
  /\ UNCHANGED << fromArg, toArg, fromObj, toObj, conv, pts, out, back, out2, cstage >>
  /\ UNCHANGED parseVars

\* a parsing run builds no converter
ConvIdle ==
  /\ fromArg = NoCrs
  /\ toArg = NoCrs
  /\ fromObj = NoCrs
  /\ toObj = NoCrs
  /\ conv = NoConverter
  /\ pts = EmptyBatch
  /\ out = NoCall
  /\ back = NoConverter
  /\ out2 = NoCall
  /\ cstage = "idle"
  /\ activeEllipsoid = DefaultEllipsoid
  /\ ellArg = NoEllipsoid
  /\ ellRes = NoEllipsoidCall

\* a conversion run parses no string
ParseIdle ==
  /\ inp = BlankInput
  /\ srep = << >>
  /\ stage = "idle"
  /\ point = NoPoint
  /\ utm = NotCalled
  /\ crs1 = NotCalled
  /\ direct = NoDirect
  /\ text = << >>
  /\ crs2 = NotCalled

Init == ParseInit /\ ConvIdle

Next ==
  \/ FromStr
  \/ \E cls \in Classes : ClassFromStr(cls)
  \/ PrintStr
  \/ FromStrAgain
  \/ FromPoint

Spec == Init /\ [][Next]_vars

ConvStart == ParseIdle /\ ConvInit

ConvNext ==
  \/ \E fromCrs \in ConvArgs, toCrs \in ConvArgs : Construct(fromCrs, toCrs)
  \/ \E points \in Batches : Call(points)
  \/ \E offset \in NewOffsets : SetFromOffset(offset)
  \/ \E offset \in NewOffsets : SetToOffset(offset)
  \/ ConstructBack
  \/ CallBack
  \/ \E ellipsoid \in EllipsoidArgs : SetActiveEllipsoid(ellipsoid)

ConvSpec == ConvStart /\ [][ConvNext]_vars

(***************************************************************************)
(* The grammar of the specification, on the parts of an input: which class *)
(* a keyword belongs to, and whether the fields and the tail are the ones  *)
(* the class's grammar asks for.                                           *)
(***************************************************************************)
LowerWord(w) == [i \in 1..Len(w) |-> Lower(w[i])]

Range(q) == {q[i] : i \in 1..Len(q)}

GrammarClass(kw) ==
  CASE LowerWord(kw) \in Range(KwLtp) -> "LocalTangentPlane"
    [] LowerWord(kw) \in Range(KwGeocentric) -> "Geocentric"
    [] LowerWord(kw) \in Range(KwGeodetic) -> "Geodetic"
    [] LowerWord(kw) \in Range(KwUtm) -> "Utm"
    [] OTHER -> "none"

FieldShape(cls) ==
  CASE cls = "LocalTangentPlane" -> "ltp"
    [] cls = "Utm" -> "utm"
    [] OTHER -> "none"

IsLetter(c) == IsUpperLetter(c) \/ IsLowerLetter(c)

\* a keyword and the required fields of its class
WellFormedHead(i) ==
  /\ GrammarClass(i.kw) # "none"
  /\ i.shape = FieldShape(GrammarClass(i.kw))
  /\ i.shape = "utm" => IsLetter(i.f[2][1])

\* a string of the grammar: the offset triple is there or not
ValidString(i) == WellFormedHead(i) /\ Len(i.tail) \in {0, 3}

\* one or two offset numbers
PartialOffset(i) == WellFormedHead(i) /\ Len(i.tail) \in {1, 2}

NonZeroOffset(offset) == \E i \in 1..3 : ~FloatEq(offset[i], FZero)

SameFields(a, b) ==
  /\ a.type = b.type
  /\ FloatEq(a.lon, b.lon) /\ FloatEq(a.lat, b.lat) /\ FloatEq(a.alt, b.alt)
  /\ a.zone = b.zone
  /\ a.south = b.south

\* C1: a valid string with no offset, parsed by the factory, printed and parsed
\* again, gives a CRS of the same class with the same fields (origin, or zone
\* and hemisphere) as the first parse.
C1_RoundTripZeroOffset ==
  (stage = "reparsed" /\ ValidString(inp) /\ inp.tail = << >>)
    => /\ crs2.kind = "return"
       /\ crs1.crs.type = GrammarClass(inp.kw)
       /\ SameFields(crs1.crs, crs2.crs)

\* C2: a keyword and its fields followed by one or two offset numbers is
\* rejected with CrsDefError, by the factory and by the class's own fromStr.
C2_PartialOffsetRejected ==
  PartialOffset(inp)
    => /\ stage # "start" => crs1.kind = "CrsDefError"
       /\ (stage = "direct" /\ direct.cls = GrammarClass(inp.kw))
            => direct.res.kind = "CrsDefError"

\* C3: a valid string with an offset triple that is not zero keeps the three
\* offset components, in order, through fromStr, str and fromStr; and str()
\* puts the three offset numbers after the fields exactly when the offset is
\* not (0, 0, 0).
C3_OffsetRoundTrip ==
  (ValidString(inp) /\ Len(inp.tail) = 3 /\ crs1.kind = "return")
    => /\ stage \in {"printed", "reparsed"}
            => text = Str([crs1.crs EXCEPT !.offset = ZeroOffset])
                        \o (IF NonZeroOffset(crs1.crs.offset)
                            THEN SpaceJoined(<< Repr(crs1.crs.offset[1]), Repr(crs1.crs.offset[2]),
                                                Repr(crs1.crs.offset[3]) >>)
                            ELSE << >>)
       /\ (stage = "reparsed" /\ NonZeroOffset(crs1.crs.offset))
            => crs2.kind = "return" /\ crs2.crs.offset = crs1.crs.offset

\* C4: the factory returns a CRS object of one of the four keyword classes, or
\* raises: the empty-input error for an empty string, CrsDefError otherwise. It
\* never returns None.
C4_FactoryReturnsCrsOrRaises ==
  stage # "start"
    => \/ crs1.kind = "return" /\ crs1.crs.type \in Classes
       \/ srep = << >> /\ crs1.kind = "RuntimeError"
       \/ srep # << >> /\ crs1.kind = "CrsDefError"

\* C5: a string a class's own fromStr accepts is accepted by the factory, which
\* returns the same CRS.
C5_FactoryAcceptsClassGrammar ==
  (stage = "direct" /\ direct.res.kind = "return") => crs1 = direct.res

\* C6: "utm <zone><c>" with an offset triple or none: accepted only when c is a
\* letter, and then the zone is the number the digits spell, the hemisphere is
\* south exactly when the upper-cased letter is at or before "M", and the offset
\* is the triple given, or zero.
C6_UtmParsing ==
  (stage # "start" /\ GrammarClass(inp.kw) = "Utm" /\ inp.shape = "utm" /\ Len(inp.tail) \in {0, 3})
    => IF IsLetter(inp.f[2][1])
       THEN /\ crs1.kind = "return"
            /\ crs1.crs.type = "Utm"
            /\ crs1.crs.zone = DigitsToNat(inp.f[1])
            /\ crs1.crs.south = (Ord(Upper(inp.f[2][1])) <= Ord("M"))
            /\ crs1.crs.offset = (IF inp.tail = << >> THEN ZeroOffset
                                  ELSE << PyFloat(inp.tail[1]), PyFloat(inp.tail[2]),
                                          PyFloat(inp.tail[3]) >>)
       ELSE crs1.kind = "CrsDefError"

(***************************************************************************)
(* The conversion claims.                                                  *)
(***************************************************************************)
Built == cstage \in {"built", "called", "builtBack", "calledBack"}

Called == cstage \in {"called", "builtBack", "calledBack"}

IsN3(shape) == Len(shape) = 2 /\ shape[2] = 3

Variants == {"LocalTangentPlane", "Geocentric", "Geodetic", "Utm", "ProjCrs"}

KeywordVariants == {"LocalTangentPlane", "Geocentric", "Geodetic", "Utm"}

\* the transforms a call invoked
EngineOps(steps) == { steps[i].op : i \in { j \in 1..Len(steps) : steps[j].what = "engine" } }

\* C7: for any pair of CRS objects of the five variants, building the
\* converter succeeds with a transform function, and calling it on a batch of
\* shape (N, 3) returns a batch of shape (N, 3).
C7_DispatchTotal ==
  /\ (Built /\ fromArg.type \in Variants /\ toArg.type \in Variants)
       => (conv.status = "built" /\ conv.convert.case # "None")
  /\ (Called /\ IsN3(pts.shape))
       => (out.kind = "return" /\ out.batch.shape = pts.shape
             /\ Len(out.batch.rows) = pts.shape[1])

\* C8: a call on a batch whose shape is not (N, 3) raises the shape error,
\* which reports the shape; it returns no array, and takes no step after the
\* shape check: no offset is added or subtracted and no transform is invoked.
C8_ShapeCheckedFirst ==
  (Called /\ ~IsN3(pts.shape))
    => /\ out.kind = "RuntimeError"
       /\ out.shape = pts.shape
       /\ out.batch = EmptyBatch
       /\ \A i \in 1..Len(out.steps) : out.steps[i].what = "shape"
       /\ EngineOps(out.steps) = {}

C8_Witness ==
  /\ Called
  /\ pts.shape = << 1, 3, 1 >>
  /\ conv.convert.case = "ltp_utm"
  /\ out.kind = "RuntimeError"

\* C9: for a pair of LocalTangentPlane, Geocentric, Geodetic and Utm objects
\* whose offsets are not reassigned in between, converting A -> B and then
\* B -> A returns the original batch, column for column; and every coordinate a converter to a LocalTangentPlane returns
\* that is an output of ecef2enu or geodetic2enu is in the column of that
\* output: east in 0, north in 1, up in 2.
C9_CompositionLaw ==
  /\ (cstage = "calledBack" /\ fromArg.type \in KeywordVariants /\ toArg.type \in KeywordVariants
        /\ fromObj = fromArg /\ toObj = toArg)
       => (out2.kind = "return" /\ out2.batch = pts)
  /\ (Called /\ out.kind = "return" /\ fromArg.type \in KeywordVariants
        /\ toArg.type = "LocalTangentPlane")
       => \A i \in 1..Len(out.batch.rows) : \A k \in 1..3 :
            out.batch.rows[i][k].op.name \in {"ecef2enu", "geodetic2enu"}
              => out.batch.rows[i][k].ax = k

StepsAt(steps, what) == { i \in 1..Len(steps) : steps[i].what = what }

\* what a call of converter cv, built when the two objects had the offsets
\* fromOffset and toOffset, on the batch points has to leave behind
OffsetLaw(cv, fromOffset, toOffset, points, res) ==
  /\ res.points = points
  /\ (IsN3(points.shape) /\ cv.convert.case # "None")
       => /\ res.kind = "return"
          /\ res.batch.shape = points.shape
          /\ res.batch.rows
               = SubOffset(RunClosure(cv.convert, AddOffset(points.rows, fromOffset),
                                      DefaultEllipsoid),
                           toOffset)
          /\ StepsAt(res.steps, "add") = {2}
          /\ StepsAt(res.steps, "sub") = {Len(res.steps)}
          /\ StepsAt(res.steps, "engine") = 3..(Len(res.steps) - 1)

\* C11: a call on a batch of shape (N, 3), of a converter that has a chain,
\* returns chain(points + fromOffset) - toOffset, where the offsets are the
\* ones the source and the target object had when the converter was built,
\* whatever was assigned to them since; the offset is added once, before the
\* transforms, and subtracted once, after them; no call changes the
\* caller's batch.
C11_OffsetsAroundChain ==
  /\ Built => (conv.status = "built"
                 => (conv.fromOffset = fromArg.offset /\ conv.toOffset = toArg.offset))
  /\ Called => OffsetLaw(conv, fromArg.offset, toArg.offset, pts, out)
  /\ cstage = "calledBack" => OffsetLaw(back, toObj.offset, fromObj.offset, out.batch, out2)

C11_Witness ==
  /\ cstage = "calledBack"
  /\ out2.kind = "return"
  /\ Len(pts.rows) = 2
  /\ conv.convert.case = "utm_ltp"
  /\ fromArg.offset = OtherOffset
  /\ toArg.offset = SomeOffset
  /\ fromObj.offset = ZeroOffset
  /\ toObj.offset = OtherOffset

\* the pairs of the decision table
InTable(a, b) ==
  \/ a.type \in {"Geocentric", "Geodetic", "Utm", "ProjCrs"}
       /\ b.type \in {"Geocentric", "Geodetic", "Utm", "ProjCrs"}
  \/ a.type = "LocalTangentPlane" /\ b.type \in KeywordVariants
  \/ a.type \in KeywordVariants /\ b.type = "LocalTangentPlane"

\* the transform named t at the origin of the LocalTangentPlane ltp
AtOrigin(t, ltp) == P3d(t, ltp.lat, ltp.lon, ltp.alt, DefaultEllipsoid)

\* the descriptor strings of the table
Descriptor(crs) ==
  CASE crs.type = "Geocentric" -> ECEF_PROJ
    [] crs.type = "Geodetic" -> GEODETIC_PROJ
    [] crs.type = "Utm" -> Utm_getProjStr(crs)
    [] crs.type = "ProjCrs" -> crs.proj

\* the row of the decision table for the pair (a, b): its transforms in order
TableRow(a, b) ==
  IF a.type # "LocalTangentPlane" /\ b.type # "LocalTangentPlane"
  THEN << Transformer(Descriptor(a), Descriptor(b)) >>
  ELSE CASE a.type = "LocalTangentPlane" /\ b.type = "LocalTangentPlane" ->
              << AtOrigin("enu2ecef", a), AtOrigin("ecef2enu", b) >>
         [] a.type = "LocalTangentPlane" /\ b.type = "Geocentric" -> << AtOrigin("enu2ecef", a) >>
         [] a.type = "LocalTangentPlane" /\ b.type = "Geodetic" -> << AtOrigin("enu2geodetic", a) >>
         [] a.type = "LocalTangentPlane" /\ b.type = "Utm" ->
              << AtOrigin("enu2geodetic", a), Transformer(GEODETIC_PROJ, Descriptor(b)) >>
         [] a.type = "Geocentric" /\ b.type = "LocalTangentPlane" -> << AtOrigin("ecef2enu", b) >>
         [] a.type = "Geodetic" /\ b.type = "LocalTangentPlane" -> << AtOrigin("geodetic2enu", b) >>
         [] a.type = "Utm" /\ b.type = "LocalTangentPlane" ->
              << Transformer(Descriptor(a), GEODETIC_PROJ), AtOrigin("geodetic2enu", b) >>

\* the transforms a closure calls, and the ones a call invoked, in order
ChainOps(c) == [i \in 1..Len(Chain(c, activeEllipsoid)) |-> Chain(c, activeEllipsoid)[i].op]

InvokedOps(steps) ==
  [i \in 1..Cardinality(StepsAt(steps, "engine")) |->
     steps[CHOOSE j \in StepsAt(steps, "engine") :
             Cardinality({ k \in StepsAt(steps, "engine") : k <= j }) = i].op]

\* C12: a converter built for a pair of the decision table holds the chain of
\* the pair's row, and a call that returns has invoked exactly the
\* transforms of the row, in the row's order.
C12_DecisionTable ==
  /\ (Built /\ conv.status = "built" /\ InTable(fromArg, toArg))
       => ChainOps(conv.convert) = TableRow(fromArg, toArg)
  /\ (Called /\ IsN3(pts.shape) /\ InTable(fromArg, toArg))
       => (out.kind = "return" /\ InvokedOps(out.steps) = TableRow(fromArg, toArg))
  /\ (cstage = "calledBack" /\ InTable(toObj, fromObj))
       => (out2.kind = "return" /\ InvokedOps(out2.steps) = TableRow(toObj, fromObj))

C12_Witness ==
  /\ cstage = "calledBack"
  /\ conv.convert.case = "ltp_utm"
  /\ back.convert.case = "utm_ltp"
  /\ Len(pts.rows) = 1
  /\ Len(InvokedOps(out.steps)) = 2
  /\ Len(InvokedOps(out2.steps)) = 2

\* a call that returned a Utm returned one of a zone in 1..60
ZoneInRange(res) == (res.kind = "return" /\ res.crs.type = "Utm") => res.crs.zone \in 1..60

\* C13: every Utm the factory, Utm.fromStr or Utm.fromPoint returns has a
\* zone in 1..60, and the one of fromPoint is southern exactly when the
\* latitude is negative.
C13_UtmZoneInRange ==
  /\ ZoneInRange(crs1)
  /\ ZoneInRange(direct.res)
  /\ ZoneInRange(crs2)
  /\ ZoneInRange(utm)
  /\ utm.kind = "return" => (utm.crs.south <=> point.lat < 0)

====
